---- MODULE Spec2Model ----
(***************************************************************************)
(* Operator registration, dispatch, construct-time negotiation and bind    *)
(* (mace/core/operator.cc) as a state machine.                             *)
(*                                                                         *)
(* The specifications share the variables:                                 *)
(*   Spec          Register / CreateOperation on one construct context     *)
(*   SpecPlacement Register / Register(builder) / AvailableDevices         *)
(*   SpecContext   set_operator_def / set_output_mem_type / SetInputInfo   *)
(*                 and the two getters                                     *)
(*   SpecInit      Operation::Init against a workspace                     *)
(*   SpecKey       the key builder on its own                              *)
(*   SpecNegotiate SetInputInfo / GetInputDataType with CreateOperation    *)
(*   SpecInterleave the Init calls of two Operations, step by step         *)
(* A failed MACE_CHECK / LOG(FATAL) aborts the process: fatal becomes TRUE *)
(* and no operation runs afterwards.                                       *)
(***************************************************************************)
EXTENDS Naturals, Sequences, FiniteSets, TLC

VARIABLES
  registry,          \* OpRegistryBase::registry_ : op_type -> OpRegistrationInfo
  operator_def,      \* OpConstructContext::operator_def_ (the shared OperatorDef)
  output_mem_type,   \* OpConstructContext::output_mem_type_
  input_mem_types,   \* OpConstructContext::input_mem_types_
  input_data_types,  \* OpConstructContext::input_data_types_
  ws,                \* Workspace tensor map : name -> tensor
  ops,               \* Operation instances : id -> [operator_def, inputs_, outputs_]
  fatal,             \* the process was aborted by a failed check
  last,              \* the most recent call, its arguments and its outcome
  registered,        \* history: the (type, device, dt, creator) of every Register that returned
  placed,            \* history: per type, the placer of the latest builder that carried one
  calls,             \* history: number of calls made, per bounded operation
  overridden,        \* history: the indices SetInputInfo stored for the current definition
  pc,                \* per Operation running Init step by step: its position in Init
  ws0                \* history: the workspace at the start

vars == <<registry, operator_def, output_mem_type, input_mem_types,
          input_data_types, ws, ops, fatal, last, registered, placed, calls,
          overridden, pc, ws0>>

regVars == <<registry, registered, placed>>
ctxVars == <<output_mem_type, input_mem_types, input_data_types, overridden>>
wsVars  == <<ws, ops, pc, ws0>>

(***************************************************************************)
(* Bounds of the model.                                                    *)
(***************************************************************************)
MaxRegister == 3     \* Register(op_type, device, dt, creator) calls in a run
MaxOutputs  == 2     \* declared outputs / configured shapes / output types of a definition
MaxInputs   == 2     \* declared inputs of a definition
MaxInit     == 2     \* Init calls in a run

(***************************************************************************)
(* Values.                                                                 *)
(***************************************************************************)
CPU == "CPU"
GPU == "GPU"
DeviceTypes == {CPU, GPU}

DT_FLOAT == "float"
DT_HALF  == "half"
DataTypes == {DT_FLOAT, DT_HALF}

OpTypes == {"Conv", "Pool"}

MemoryTypes == {"CPU_BUFFER", "GPU_IMAGE"}

NoDef == [null |-> TRUE]        \* operator_def_ == nullptr

\* An argument of an OperatorDef: arg(i).name(), arg(i).i()
Arg(n, v) == [name |-> n, i |-> v]

ArgLists ==
  { <<>>,
    <<Arg("T", DT_FLOAT)>>,
    <<Arg("T", DT_HALF)>>,
    <<Arg("axis", DT_HALF), Arg("T", DT_HALF)>> }

\* Shapes: a shape is its sequence of dims; rank 3 and rank 4 shapes.
Shape(rank) == [d \in 1..rank |-> 1]

OperatorDef(t, in, out, otypes, oshapes, args) ==
  [type |-> t, input |-> in, output |-> out, output_type |-> otypes,
   output_shape |-> oshapes, arg |-> args]

(***************************************************************************)
(* ProtoArgHelper::GetOptionalArg<OperatorDef, int>(def, name, default):   *)
(* the value of the argument called name, the default when there is none.  *)
(***************************************************************************)
GetOptionalArg(def, arg_name, default_value) ==
  IF \E k \in 1..Len(def.arg) : def.arg[k].name = arg_name
    THEN def.arg[CHOOSE k \in 1..Len(def.arg) : def.arg[k].name = arg_name].i
    ELSE default_value

\* In the claims: the "T" attribute of a definition, float when absent
AttrT(def) ==
  IF \E k \in 1..Len(def.arg) : def.arg[k].name = "T"
    THEN (def.arg[CHOOSE k \in 1..Len(def.arg) : def.arg[k].name = "T"]).i
    ELSE DT_FLOAT

(***************************************************************************)
(* OpKeyBuilder                                                            *)
(***************************************************************************)
\* operator<< of a DeviceType: the enumerator's number
DeviceTypeToStream(device_type) == IF device_type = CPU THEN "0" ELSE "2"

\* DataTypeToString: the name of the enumerator
DataTypeToString(dt) == IF dt = DT_FLOAT THEN "DT_FLOAT" ELSE "DT_HALF"

\* OpKeyBuilder::OpKeyBuilder(op_name): device_type_ has no initializer
OpKeyBuilder(op_name) ==
  [op_name_ |-> op_name, device_type_ |-> "indeterminate", type_constraint_ |-> <<>>]

\* OpKeyBuilder::Device
Device(builder, device) == [builder EXCEPT !.device_type_ = device]

\* OpKeyBuilder::TypeConstraint
TypeConstraint(builder, attr_name, allowed) ==
  LET tc == builder.type_constraint_
  IN [builder EXCEPT !.type_constraint_ =
        [a \in DOMAIN tc \cup {attr_name} |-> IF a = attr_name THEN allowed ELSE tc[a]]]

\* variant: the loop over type_order left out
BuildStringNoConstraint(builder) ==
  builder.op_name_ \o DeviceTypeToStream(builder.device_type_)

\* OpKeyBuilder::Build(): the stream of op_name_, device_type_ and, for the
\* one entry "T" of type_order, the name, "_" and the data type's name
BuildString(builder) ==
  builder.op_name_ \o DeviceTypeToStream(builder.device_type_)
    \o "T" \o "_" \o DataTypeToString(builder.type_constraint_["T"])

\* variant: a key that leaves the device out
BuildWithoutDevice(op_name, device_type, dt) ==
  op_name \o "T" \o "_" \o DataTypeToString(dt)

\* OpKeyBuilder(op_name).Device(device_type).TypeConstraint("T", dt).Build()
Build(op_name, device_type, dt) ==
  BuildString(TypeConstraint(Device(OpKeyBuilder(op_name), device_type), "T", dt))

(***************************************************************************)
(* OpRegistrationInfo                                                      *)
(***************************************************************************)
DefaultPlacer == "default"
CustomPlacers == {"placer_gpu", "placer_all"}
NoPlacer == "none"              \* an empty std::function

\* OpRegistrationInfo::OpRegistrationInfo(): no devices, no creators, the
\* default device_placer.
NewOpRegistrationInfo ==
  [devices |-> {}, device_placer |-> DefaultPlacer, creators |-> <<>>]

\* variant: the device is not recorded
AddDeviceForgets(info, device) == info

\* OpRegistrationInfo::AddDevice
AddDevice(info, device) == [info EXCEPT !.devices = @ \cup {device}]

HasKey(info, key) == key \in DOMAIN info.creators

\* variant: the store without the MACE_CHECK
RegisterCreatorOverwrites(info, key, creator) ==
  [ok |-> TRUE,
   info |-> [info EXCEPT !.creators =
               [k \in DOMAIN info.creators \cup {key} |->
                  IF k = key THEN creator ELSE info.creators[k]]]]

\* OpRegistrationInfo::Register(key, creator): the MACE_CHECK, then the store.
RegisterCreator(info, key, creator) ==
  IF HasKey(info, key)
    THEN [ok |-> FALSE, info |-> info]
    ELSE [ok |-> TRUE,
          info |-> [info EXCEPT !.creators =
                      [k \in DOMAIN info.creators \cup {key} |->
                         IF k = key THEN creator ELSE info.creators[k]]]]

\* variant: a new entry whether or not there is one
InfoAlwaysNew(reg, op_type) == NewOpRegistrationInfo

\* registry_[op_type]: the entry, default-constructed when there is none.
InfoOrNew(reg, op_type) ==
  IF op_type \in DOMAIN reg THEN reg[op_type] ELSE NewOpRegistrationInfo

Put(reg, op_type, info) ==
  [t \in DOMAIN reg \cup {op_type} |-> IF t = op_type THEN info ELSE reg[t]]

(***************************************************************************)
(* OpRegistryBase::Register(op_type, device_type, dt, creator)             *)
(* The creator passed is a fresh function object, named by the call count. *)
(***************************************************************************)
Register(op_type, device_type, dt) ==
  /\ ~fatal
  /\ calls.Register < MaxRegister
  /\ LET creator == calls.Register + 1
         info1   == AddDevice(InfoOrNew(registry, op_type), device_type)
         op_key  == Build(op_type, device_type, dt)
         r       == RegisterCreator(info1, op_key, creator)
     IN /\ registry' = Put(registry, op_type, r.info)
        /\ fatal' = ~r.ok
        /\ registered' = IF r.ok
                           THEN registered \cup {<<op_type, device_type, dt, creator>>}
                           ELSE registered
        /\ last' = [op |-> "Register", type |-> op_type, device |-> device_type,
                    dt |-> dt, creator |-> creator, key |-> op_key,
                    outcome |-> IF r.ok THEN "ok" ELSE "fatal"]
  /\ calls' = [calls EXCEPT !.Register = @ + 1]
  /\ UNCHANGED <<placed, operator_def, ctxVars, wsVars>>

(***************************************************************************)
(* OpConstructContext::set_operator_def                                    *)
(***************************************************************************)
set_operator_def(def) ==
  /\ ~fatal
  /\ operator_def' = def
  /\ input_data_types' = <<>>
  /\ overridden' = {}
  /\ last' = [op |-> "set_operator_def"]
  /\ UNCHANGED <<regVars, output_mem_type, input_mem_types, wsVars, fatal, calls>>

(***************************************************************************)
(* OpRegistryBase::CreateOperation(context, device_type)                   *)
(***************************************************************************)
\* variant: the downgrade on every device
NeedsDowngradeAnyDevice(device_type, dtype) == dtype = DT_HALF

\* the condition of the half-precision downgrade
NeedsDowngrade(device_type, dtype) == device_type = CPU /\ dtype = DT_HALF

\* variant: only the dispatch type is changed, the definition is left alone
RewriteTNothing(args) == args

\* the loop over arg(i): every argument called "T" is set to DT_FLOAT
RewriteT(args) ==
  [k \in 1..Len(args) |->
     IF args[k].name = "T" THEN [args[k] EXCEPT !.i = DT_FLOAT] ELSE args[k]]

\* creators.at(key)(context): the creator builds an Operation on the
\* context's definition (Operation::Operation)
Invoke(creator, def) == [creator |-> creator, operator_def |-> def]

CreateOperation(device_type) ==
  /\ ~fatal
  /\ IF operator_def = NoDef
       THEN \* *operator_def on a null pointer: the process dies
            /\ fatal' = TRUE
            /\ last' = [op |-> "CreateOperation", device |-> device_type,
                        def |-> NoDef, outcome |-> "crash", invoked |-> {}]
            /\ UNCHANGED operator_def
       ELSE LET dtype0  == GetOptionalArg(operator_def, "T", DT_FLOAT)
                down    == NeedsDowngrade(device_type, dtype0)
                def1    == IF down THEN [operator_def EXCEPT !.arg = RewriteT(@)]
                                   ELSE operator_def
                dtype   == IF down THEN DT_FLOAT ELSE dtype0
                op_type == def1.type
                key     == Build(op_type, device_type, dtype)
                found   == /\ op_type \in DOMAIN registry
                           /\ HasKey(registry[op_type], key)
                invoked == IF found THEN {registry[op_type].creators[key]} ELSE {}
            IN /\ operator_def' = def1
               /\ fatal' = ~found
               /\ last' = [op |-> "CreateOperation", device |-> device_type,
                           def |-> operator_def, key |-> key,
                           outcome |-> IF found THEN "ok" ELSE "fatal",
                           invoked |-> invoked,
                           result |-> {Invoke(c, def1) : c \in invoked}]
  /\ UNCHANGED <<regVars, ctxVars, wsVars, calls>>

(***************************************************************************)
(* Spec: registration and dispatch.  The context starts without a          *)
(* definition (the constructor), the registry empty.                       *)
(***************************************************************************)
DispatchDefs ==
  { OperatorDef(t, <<>>, <<"y">>, <<>>, <<>>, a) : t \in OpTypes, a \in ArgLists }

\* (the registry never reads output_mem_type: one value stands for any)
InitCommon ==
  /\ registry = <<>>
  /\ registered = {}
  /\ placed = [t \in OpTypes |-> NoPlacer]
  /\ operator_def = NoDef
  /\ output_mem_type \in {"CPU_BUFFER"}
  /\ input_mem_types = <<>>
  /\ input_data_types = <<>>
  /\ ws = <<>>
  /\ ops = <<>>
  /\ fatal = FALSE
  /\ last = [op |-> "none"]
  /\ calls = [Register |-> 0, Init |-> 0]
  /\ overridden = {}
  /\ pc = <<>>
  /\ ws0 = ws

Init == InitCommon

Next ==
  \/ \E t \in OpTypes, d \in DeviceTypes, dt \in DataTypes : Register(t, d, dt)
  \/ \E def \in DispatchDefs : set_operator_def(def)
  \/ \E d \in DeviceTypes : CreateOperation(d)

Spec == Init /\ [][Next]_vars

(***************************************************************************)
(* SpecKey: the key builder on its own.  Two keys are built, each from an  *)
(* operator type name, a device and a data type; the names include ones    *)
(* that end like the device and type part of a key.                        *)
(***************************************************************************)
KeyNames == {"Conv", "Conv0", "Conv2", "Conv0T_DT_HALF", "ConvT_DT_FLOAT0", ""}

KeyTriples == KeyNames \X DeviceTypes \X DataTypes

BuildKeys(a, b) ==
  /\ ~fatal
  /\ last' = [op |-> "Build", a |-> a, b |-> b,
              key_a |-> Build(a[1], a[2], a[3]),
              key_b |-> Build(b[1], b[2], b[3])]
  /\ UNCHANGED <<regVars, operator_def, ctxVars, wsVars, fatal, calls>>

InitKey == InitCommon

NextKey == \E a \in KeyTriples, b \in KeyTriples : BuildKeys(a, b)

SpecKey == InitKey /\ [][NextKey]_vars

(***************************************************************************)
(* Device placement.                                                       *)
(***************************************************************************)
Returns(devices) == [outcome |-> "ok", devices |-> devices]
Crashes == [outcome |-> "crash"]

\* The lambda installed by OpRegistrationInfo::OpRegistrationInfo(), as the
\* set of its possible results.  The conjunction is evaluated left to right:
\* the definition is read only when CPU is supported, output_shape(0) only
\* when the two counts agree.  With no output and no shape the counts agree
\* and output_shape(0) reads index 0 of an empty repeated field, which is
\* undefined: the rank read may be 4, or not, or the read kills the process.
DefaultDevicePlacer(devices, op) ==
  IF CPU \in devices
    THEN IF op = NoDef THEN {Crashes}
         ELSE IF Len(op.output_shape) = Len(op.output)
           THEN IF Len(op.output_shape) = 0
                  THEN {Returns({CPU}), Returns(devices), Crashes}
                  ELSE IF Len(op.output_shape[1]) # 4
                         THEN {Returns({CPU})}
                         ELSE {Returns(devices)}
           ELSE {Returns(devices)}
    ELSE {Returns(devices)}

\* The placers the condition builders of this model carry: one that places
\* on GPU only, one that allows every device.
CustomPlacer(placer, op) ==
  IF placer = "placer_gpu" THEN {Returns({GPU})} ELSE {Returns({CPU, GPU})}

\* info->device_placer(context)
PlacerResults(info, op) ==
  IF info.device_placer = DefaultPlacer
    THEN DefaultDevicePlacer(info.devices, op)
    ELSE CustomPlacer(info.device_placer, op)

\* OpConditionBuilder::Finalize(info), info never null here
Finalize(info, placer) ==
  IF placer # NoPlacer THEN [info EXCEPT !.device_placer = placer] ELSE info

\* OpRegistryBase::Register(const OpConditionBuilder &builder)
RegisterBuilder(op_type, placer) ==
  /\ ~fatal
  /\ registry' = Put(registry, op_type, Finalize(InfoOrNew(registry, op_type), placer))
  /\ last' = [op |-> "RegisterBuilder", type |-> op_type, placer |-> placer,
              before |-> InfoOrNew(registry, op_type).device_placer]
  /\ placed' = IF placer = NoPlacer THEN placed
                ELSE [placed EXCEPT ![op_type] = placer]
  /\ UNCHANGED <<registered, operator_def, ctxVars, wsVars, fatal, calls>>

\* OpRegistryBase::AvailableDevices(op_type, context)
AvailableDevices(op_type) ==
  /\ ~fatal
  /\ IF op_type \notin DOMAIN registry
       THEN /\ fatal' = TRUE
            /\ last' = [op |-> "AvailableDevices", type |-> op_type,
                        def |-> operator_def, outcome |-> "fatal"]
       ELSE \E r \in PlacerResults(registry[op_type], operator_def) :
              /\ fatal' = (r.outcome # "ok")
              /\ last' = [op |-> "AvailableDevices", type |-> op_type,
                          def |-> operator_def, outcome |-> r.outcome,
                          devices |-> IF r.outcome = "ok" THEN r.devices ELSE {}]
  /\ UNCHANGED <<regVars, operator_def, ctxVars, wsVars, calls>>

(***************************************************************************)
(* SpecPlacement: registration, condition builders and placement queries.  *)
(* Definitions differ in the number of outputs, the number of configured   *)
(* shapes and the rank of the first shape.                                 *)
(***************************************************************************)
OutputNames == <<"y1", "y2", "y3", "y4">>

ShapeLists ==
  { [k \in 1..n |-> IF k = 1 THEN Shape(r) ELSE Shape(4)] :
      n \in 0..MaxOutputs, r \in {3, 4} }

PlacementDefs ==
  { OperatorDef("Conv", <<>>, SubSeq(OutputNames, 1, n), <<>>, shapes, <<>>) :
      n \in 0..MaxOutputs, shapes \in ShapeLists }

InitPlacement == InitCommon

NextPlacement ==
  \/ \E t \in OpTypes, d \in DeviceTypes : Register(t, d, DT_FLOAT)
  \/ \E t \in OpTypes, p \in CustomPlacers \cup {NoPlacer} : RegisterBuilder(t, p)
  \/ \E def \in PlacementDefs : set_operator_def(def)
  \/ \E t \in OpTypes : AvailableDevices(t)

SpecPlacement == InitPlacement /\ [][NextPlacement]_vars

(***************************************************************************)
(* OpConstructContext: per-input memory types and data types.              *)
(***************************************************************************)
Value(v) == [outcome |-> "ok", value |-> v]
CheckFailed == [outcome |-> "fatal"]

\* vector::resize(n, fill) of a vector found empty
Materialize(types, n, fill) ==
  IF types = <<>> THEN [k \in 1..n |-> fill] ELSE types

\* variant: the bounds check off by one
InBoundsInclusive(idx, mem_types, data_types) ==
  idx <= Len(mem_types) /\ idx <= Len(data_types)

\* MACE_CHECK(idx < input_mem_types_.size() && idx < input_data_types_.size())
InBounds(idx, mem_types, data_types) ==
  idx < Len(mem_types) /\ idx < Len(data_types)

\* v[idx] = x, indices from 0
StoreAt(types, idx, x) == [types EXCEPT ![idx + 1] = x]

\* OpConstructContext::set_output_mem_type
set_output_mem_type(type) ==
  /\ ~fatal
  /\ IF operator_def = NoDef
       THEN /\ fatal' = TRUE
            /\ last' = [op |-> "set_output_mem_type", outcome |-> "fatal"]
            /\ UNCHANGED <<output_mem_type, input_mem_types>>
       ELSE /\ output_mem_type' = type
            /\ input_mem_types' = <<>>
            /\ last' = [op |-> "set_output_mem_type", outcome |-> "ok"]
            /\ UNCHANGED fatal
  /\ UNCHANGED <<regVars, operator_def, input_data_types, overridden, wsVars, calls>>

\* OpConstructContext::SetInputInfo
SetInputInfo(idx, mem_type, dt) ==
  /\ ~fatal
  /\ IF operator_def = NoDef
       THEN \* operator_def_->input_size() on a null pointer: the process dies
            /\ fatal' = TRUE
            /\ last' = [op |-> "SetInputInfo", idx |-> idx, outcome |-> "crash"]
            /\ UNCHANGED <<input_mem_types, input_data_types, overridden>>
       ELSE LET n     == Len(operator_def.input)
                op_dt == GetOptionalArg(operator_def, "T", DT_FLOAT)
                mems  == Materialize(input_mem_types, n, output_mem_type)
                datas == Materialize(input_data_types, n, op_dt)
                ok    == InBounds(idx, mems, datas)
            IN /\ input_mem_types' = IF ok THEN StoreAt(mems, idx, mem_type) ELSE mems
               /\ input_data_types' = IF ok THEN StoreAt(datas, idx, dt) ELSE datas
               /\ overridden' = IF ok THEN overridden \cup {idx} ELSE overridden
               /\ fatal' = ~ok
               /\ last' = [op |-> "SetInputInfo", idx |-> idx, mem_type |-> mem_type,
                           dt |-> dt,
                           fresh |-> input_mem_types = <<>> /\ input_data_types = <<>>,
                           outcome |-> IF ok THEN "ok" ELSE "fatal"]
  /\ UNCHANGED <<regVars, operator_def, output_mem_type, wsVars, calls>>

\* variant: the bounds check before the test for an empty vector
GetInputMemTypeAlwaysChecked(idx) ==
  IF operator_def # NoDef /\ idx >= Len(operator_def.input) THEN CheckFailed
  ELSE IF input_mem_types = <<>> THEN Value(output_mem_type)
  ELSE IF idx < Len(input_mem_types) THEN Value(input_mem_types[idx + 1])
  ELSE CheckFailed

\* what OpConstructContext::GetInputMemType(idx) does in the current state
GetInputMemTypeResult(idx) ==
  IF input_mem_types = <<>> THEN Value(output_mem_type)
  ELSE IF idx < Len(input_mem_types) THEN Value(input_mem_types[idx + 1])
  ELSE CheckFailed

\* what OpConstructContext::GetInputDataType(idx) does in the current state
GetInputDataTypeResult(idx) ==
  IF input_data_types = <<>>
    THEN IF operator_def = NoDef
           THEN [outcome |-> "crash"]       \* *operator_def_ on a null pointer
           ELSE Value(GetOptionalArg(operator_def, "T", DT_FLOAT))
  ELSE IF idx < Len(input_data_types) THEN Value(input_data_types[idx + 1])
  ELSE CheckFailed

\* OpConstructContext::GetInputMemType
GetInputMemType(idx) ==
  /\ ~fatal
  /\ LET r == GetInputMemTypeResult(idx)
     IN /\ fatal' = (r.outcome # "ok")
        /\ last' = [op |-> "GetInputMemType", idx |-> idx, result |-> r]
  /\ UNCHANGED <<regVars, operator_def, ctxVars, wsVars, calls>>

\* OpConstructContext::GetInputDataType
GetInputDataType(idx) ==
  /\ ~fatal
  /\ LET r == GetInputDataTypeResult(idx)
     IN /\ fatal' = (r.outcome # "ok")
        /\ last' = [op |-> "GetInputDataType", idx |-> idx, result |-> r]
  /\ UNCHANGED <<regVars, operator_def, ctxVars, wsVars, calls>>

(***************************************************************************)
(* SpecContext: one construct context.  output_mem_type_ has no            *)
(* initializer in the constructor: it starts with any value.               *)
(***************************************************************************)
InputNames == <<"x1", "x2", "x3", "x4">>

ContextDefs ==
  { OperatorDef("Conv", SubSeq(InputNames, 1, n), <<"y1">>, <<>>, <<>>, a) :
      n \in 0..MaxInputs, a \in ArgLists }

\* indices asked for: every input of the largest definition and two beyond
Indices == 0..(MaxInputs + 1)

InitContext ==
  /\ registry = <<>>
  /\ registered = {}
  /\ placed = [t \in OpTypes |-> NoPlacer]
  /\ operator_def = NoDef
  /\ output_mem_type \in MemoryTypes
  /\ input_mem_types = <<>>
  /\ input_data_types = <<>>
  /\ ws = <<>>
  /\ ops = <<>>
  /\ fatal = FALSE
  /\ last = [op |-> "none"]
  /\ calls = [Register |-> 0, Init |-> 0]
  /\ overridden = {}
  /\ pc = <<>>
  /\ ws0 = ws

NextContext ==
  \/ \E def \in ContextDefs : set_operator_def(def)
  \/ \E m \in MemoryTypes : set_output_mem_type(m)
  \/ \E idx \in Indices, m \in MemoryTypes, dt \in DataTypes : SetInputInfo(idx, m, dt)
  \/ \E idx \in Indices : GetInputMemType(idx)
  \/ \E idx \in Indices : GetInputDataType(idx)

SpecContext == InitContext /\ [][NextContext]_vars

(***************************************************************************)
(* SpecNegotiate: one construct context handed to CreateOperation, with    *)
(* per-input overrides stored before and after.                            *)
(***************************************************************************)
InitNegotiate == InitCommon

NextNegotiate ==
  \/ \E d \in DeviceTypes, dt \in DataTypes : Register("Conv", d, dt)
  \/ \E def \in ContextDefs : set_operator_def(def)
  \/ \E idx \in Indices, dt \in DataTypes : SetInputInfo(idx, "GPU_IMAGE", dt)
  \/ \E idx \in Indices : GetInputDataType(idx)
  \/ \E d \in DeviceTypes : CreateOperation(d)

SpecNegotiate == InitNegotiate /\ [][NextNegotiate]_vars

(***************************************************************************)
(* Workspace (consumed interface) and Operation::Init.                     *)
(* A tensor is [id, dtype, shape_configured]; the id stands for the        *)
(* address that inputs_ and outputs_ hold.                                 *)
(***************************************************************************)
\* Workspace::HasTensor
HasTensor(w, name) == name \in DOMAIN w

\* a null Tensor pointer; the tensors of a workspace have ids from 1
NullTensor == 0

\* Workspace::GetTensor: the tensor under the name, nullptr when there is none
GetTensor(w, name) == IF HasTensor(w, name) THEN w[name].id ELSE NullTensor

FreshId(w) ==
  IF DOMAIN w = {} THEN 1
  ELSE 1 + (CHOOSE m \in {w[n].id : n \in DOMAIN w} :
              \A n \in DOMAIN w : w[n].id <= m)

\* Workspace::CreateTensor(name, allocator, type): a new tensor under name
CreateTensor(w, name, type) ==
  [n \in DOMAIN w \cup {name} |->
     IF n = name THEN [id |-> FreshId(w), dtype |-> type, shape_configured |-> <<>>]
     ELSE w[n]]

\* ws->GetTensor(name)->SetShapeConfigured(shape)
SetShapeConfigured(w, name, shape) ==
  [w EXCEPT ![name].shape_configured = shape]

\* variant: the check of the input tensor left out
NotNullUnchecked(tensor) == TRUE

\* MACE_CHECK(tensor != nullptr, ...)
NotNull(tensor) == tensor # NullTensor

\* The first loop of Init: inputs_ after it, whether every input was found,
\* and the input name the failed check reports.
RECURSIVE BindInputs(_, _, _, _)
BindInputs(def, w, k, inputs) ==
  IF k > Len(def.input) THEN [ok |-> TRUE, inputs |-> inputs]
  ELSE LET input_str == def.input[k]
           tensor    == GetTensor(w, input_str)
       IN IF ~NotNull(tensor)
            THEN [ok |-> FALSE, inputs |-> inputs, missing |-> input_str]
            ELSE BindInputs(def, w, k + 1, Append(inputs, tensor))

\* variant: every output is created
OutputNeverExists(w, output_str) == FALSE

\* if (ws->HasTensor(output_str))
OutputExists(w, output_str) == HasTensor(w, output_str)

\* variant: no check of the counts
OutputTypesUnchecked(def) == TRUE

\* the MACE_CHECK before an output is created
OutputTypesConsistent(def) ==
  Len(def.output_type) = 0 \/ Len(def.output) = Len(def.output_type)

\* the data type of the tensor created for output i (from 0)
OutputType(def, i) ==
  IF i < Len(def.output_type) THEN def.output_type[i + 1]
  ELSE GetOptionalArg(def, "T", DT_FLOAT)

\* the configured shape of output i, applied when there is one
ApplyShape(def, w, i) ==
  IF i < Len(def.output_shape)
    THEN SetShapeConfigured(w, def.output[i + 1], def.output_shape[i + 1])
    ELSE w

\* variant: the check of the counts made for every output, found or not
RECURSIVE BindOutputsCheckedAlways(_, _, _, _, _)
BindOutputsCheckedAlways(def, w, i, outputs, created) ==
  IF i >= Len(def.output)
    THEN [ok |-> TRUE, ws |-> w, outputs |-> outputs, created |-> created]
  ELSE LET output_str == def.output[i + 1]
       IN IF ~(Len(def.output_type) = 0 \/ Len(def.output) = Len(def.output_type))
            THEN [ok |-> FALSE, ws |-> w, outputs |-> outputs, created |-> created]
          ELSE IF HasTensor(w, output_str)
            THEN BindOutputsCheckedAlways(
                   def,
                   IF i < Len(def.output_shape)
                     THEN SetShapeConfigured(w, output_str, def.output_shape[i + 1])
                     ELSE w,
                   i + 1, Append(outputs, GetTensor(w, output_str)), created)
          ELSE LET w1 == CreateTensor(w, output_str,
                                      IF i < Len(def.output_type)
                                        THEN def.output_type[i + 1]
                                        ELSE GetOptionalArg(def, "T", DT_FLOAT))
               IN BindOutputsCheckedAlways(
                    def,
                    IF i < Len(def.output_shape)
                      THEN SetShapeConfigured(w1, output_str, def.output_shape[i + 1])
                      ELSE w1,
                    i + 1, Append(outputs, GetTensor(w1, output_str)),
                    Append(created, output_str))

\* The second loop of Init from output i on: the workspace and outputs_
\* after it, whether it ran to the end, and the names CreateTensor was
\* called with (in call order).
RECURSIVE BindOutputs(_, _, _, _, _)
BindOutputs(def, w, i, outputs, created) ==
  IF i >= Len(def.output)
    THEN [ok |-> TRUE, ws |-> w, outputs |-> outputs, created |-> created]
  ELSE LET output_str == def.output[i + 1]
       IN IF OutputExists(w, output_str)
            THEN BindOutputs(def, ApplyShape(def, w, i), i + 1,
                             Append(outputs, GetTensor(w, output_str)), created)
          ELSE IF ~OutputTypesConsistent(def)
            THEN [ok |-> FALSE, ws |-> w, outputs |-> outputs, created |-> created]
          ELSE LET w1 == CreateTensor(w, output_str, OutputType(def, i))
               IN BindOutputs(def, ApplyShape(def, w1, i), i + 1,
                              Append(outputs, GetTensor(w1, output_str)),
                              Append(created, output_str))

\* variant: the two loops of Init in the other order
InitResultOutputsFirst(def, w, inputs, outputs) ==
  LET bo == BindOutputs(def, w, 0, outputs, <<>>)
      bi == BindInputs(def, bo.ws, 1, inputs)
  IN IF ~bo.ok
       THEN [ok |-> FALSE, failed |-> "output_type", ws |-> bo.ws, inputs |-> inputs,
             outputs |-> bo.outputs, created |-> bo.created, message |-> <<>>]
     ELSE IF ~bi.ok
       THEN [ok |-> FALSE, failed |-> "input", ws |-> bo.ws, inputs |-> bi.inputs,
             outputs |-> bo.outputs, created |-> bo.created,
             message |-> <<def.type, bi.missing>>]
     ELSE [ok |-> TRUE, failed |-> "none", ws |-> bo.ws, inputs |-> bi.inputs,
           outputs |-> bo.outputs, created |-> bo.created, message |-> <<>>]

\* Operation::Init as a function of the definition, the workspace and the
\* operation's inputs_ and outputs_: the input loop, then the output loop.
\* message is what the failed input check reports: the operator type and
\* the input name.
InitResult(def, w, inputs, outputs) ==
  LET bi == BindInputs(def, w, 1, inputs)
      bo == BindOutputs(def, w, 0, outputs, <<>>)
  IN IF ~bi.ok
       THEN [ok |-> FALSE, failed |-> "input", ws |-> w, inputs |-> bi.inputs,
             outputs |-> outputs, created |-> <<>>,
             message |-> <<def.type, bi.missing>>]
       ELSE [ok |-> bo.ok, failed |-> IF bo.ok THEN "none" ELSE "output_type",
             ws |-> bo.ws, inputs |-> bi.inputs, outputs |-> bo.outputs,
             created |-> bo.created, message |-> <<>>]

\* Operation::Init(context) of operation o
OperationInit(o) ==
  /\ ~fatal
  /\ calls.Init < MaxInit
  /\ LET def == ops[o].operator_def
         r   == InitResult(def, ws, ops[o].inputs_, ops[o].outputs_)
     IN /\ ops' = [ops EXCEPT ![o].inputs_ = r.inputs, ![o].outputs_ = r.outputs]
        /\ ws' = r.ws
        /\ fatal' = ~r.ok
        /\ last' = [op |-> "Init", o |-> o, ws_before |-> ws,
                    n_inputs |-> Len(ops[o].inputs_),
                    n_outputs |-> Len(ops[o].outputs_),
                    outcome |-> IF r.ok THEN "ok" ELSE "fatal",
                    failed |-> r.failed, created |-> r.created,
                    message |-> r.message]
  /\ calls' = [calls EXCEPT !.Init = @ + 1]
  /\ UNCHANGED <<regVars, operator_def, ctxVars, pc, ws0>>

(***************************************************************************)
(* SpecInit: one constructed Operation and a workspace.  The definition    *)
(* and the tensors already in the workspace are chosen at the start.       *)
(***************************************************************************)
BindInputLists == { <<>>, <<"x1">>, <<"x2", "x1">> }

\* output names: one that is never an input, one that may be an input
BindOutputNames == {"y1", "x1"}

SeqsUpTo(S, n) == UNION { [1..k -> S] : k \in 0..n }

BindDefs ==
  { OperatorDef(t, in, out, otypes, oshapes, args) :
      t \in OpTypes,
      in \in BindInputLists,
      out \in SeqsUpTo(BindOutputNames, MaxOutputs),
      otypes \in SeqsUpTo(DataTypes, MaxOutputs),
      oshapes \in { <<>>, <<Shape(4)>> },
      args \in { <<>>, <<Arg("T", DT_HALF)>> } }

\* the tensor x2 is always there; x1 and y1 may be
Tensor(id, dtype) == [id |-> id, dtype |-> dtype, shape_configured |-> <<>>]

Workspaces ==
  { [n \in {"x2"} \cup extra |->
       IF n = "x2" THEN Tensor(1, DT_FLOAT)
       ELSE IF n = "x1" THEN Tensor(2, DT_HALF)
       ELSE Tensor(3, DT_HALF)] : extra \in SUBSET {"x1", "y1"} }

InitInit ==
  /\ registry = <<>>
  /\ registered = {}
  /\ placed = [t \in OpTypes |-> NoPlacer]
  /\ operator_def = NoDef
  /\ output_mem_type \in {"CPU_BUFFER"}
  /\ input_mem_types = <<>>
  /\ input_data_types = <<>>
  /\ ws \in Workspaces
  /\ \E def \in BindDefs :
       ops = [o \in {1} |-> [operator_def |-> def, inputs_ |-> <<>>, outputs_ |-> <<>>]]
  /\ fatal = FALSE
  /\ last = [op |-> "none"]
  /\ calls = [Register |-> 0, Init |-> 0]
  /\ overridden = {}
  /\ pc = <<>>
  /\ ws0 = ws

NextInit == \E o \in DOMAIN ops : OperationInit(o)

SpecInit == InitInit /\ [][NextInit]_vars

(***************************************************************************)
(* Operation::Init step by step.  Each call on the workspace (GetTensor,   *)
(* HasTensor, CreateTensor, SetShapeConfigured) is one atomic step of the  *)
(* Operation that makes it; what Init does on its own data between two     *)
(* calls belongs to the step of the later call.  pc[o] is the position of  *)
(* Operation o: the loop it is in (at), the loop index (i) and the names   *)
(* it has called CreateTensor with.                                        *)
(***************************************************************************)
At(o, at) == ~fatal /\ o \in DOMAIN pc /\ pc[o].at = at

Goto(o, at, i) == pc' = [pc EXCEPT ![o].at = at, ![o].i = i]

StepDone(o, step) == last' = [op |-> "InitStep", o |-> o, step |-> step]

\* variant: the output is created without asking the workspace
AfterHasTensorAlwaysCreate(w, output_str) == "create"

\* the branch taken on ws->HasTensor(output_str)
AfterHasTensor(w, output_str) ==
  IF OutputExists(w, output_str) THEN "get" ELSE "create"

\* the input loop: ws->GetTensor(input_str), the check, the push_back
InitInputStep(o) ==
  /\ At(o, "input")
  /\ LET def == ops[o].operator_def
         k   == pc[o].i
     IN IF k >= Len(def.input)
          THEN /\ Goto(o, "has", 0)
               /\ UNCHANGED <<ops, fatal>>
          ELSE LET tensor == GetTensor(ws, def.input[k + 1])
               IN IF ~NotNull(tensor)
                    THEN /\ fatal' = TRUE
                         /\ Goto(o, "fatal", k)
                         /\ UNCHANGED ops
                    ELSE /\ ops' = [ops EXCEPT ![o].inputs_ = Append(@, tensor)]
                         /\ Goto(o, "input", k + 1)
                         /\ UNCHANGED fatal
  /\ StepDone(o, "GetTensor")
  /\ UNCHANGED <<regVars, operator_def, ctxVars, ws, ws0, calls>>

\* the head of the output loop and ws->HasTensor(output_str); past the
\* last output Init returns
InitHasStep(o) ==
  /\ At(o, "has")
  /\ LET def == ops[o].operator_def
         i   == pc[o].i
     IN IF i >= Len(def.output)
          THEN Goto(o, "done", i)
          ELSE Goto(o, AfterHasTensor(ws, def.output[i + 1]), i)
  /\ StepDone(o, "HasTensor")
  /\ UNCHANGED <<regVars, operator_def, ctxVars, ws, ops, ws0, fatal, calls>>

\* outputs_.push_back(ws->GetTensor(output_str))
InitGetStep(o) ==
  /\ At(o, "get")
  /\ LET def == ops[o].operator_def
         i   == pc[o].i
     IN /\ ops' = [ops EXCEPT ![o].outputs_ = Append(@, GetTensor(ws, def.output[i + 1]))]
        /\ Goto(o, "shape", i)
  /\ StepDone(o, "GetTensor")
  /\ UNCHANGED <<regVars, operator_def, ctxVars, ws, ws0, fatal, calls>>

\* the check of the counts, the choice of the type and
\* outputs_.push_back(ws->CreateTensor(output_str, allocator, output_type))
InitCreateStep(o) ==
  /\ At(o, "create")
  /\ LET def == ops[o].operator_def
         i   == pc[o].i
         output_str == def.output[i + 1]
         w1  == CreateTensor(ws, output_str, OutputType(def, i))
     IN IF ~OutputTypesConsistent(def)
          THEN /\ fatal' = TRUE
               /\ Goto(o, "fatal", i)
               /\ UNCHANGED <<ws, ops>>
          ELSE /\ ws' = w1
               /\ ops' = [ops EXCEPT ![o].outputs_ = Append(@, GetTensor(w1, output_str))]
               /\ pc' = [pc EXCEPT ![o].at = "shape",
                                   ![o].created = Append(@, output_str)]
               /\ UNCHANGED fatal
  /\ StepDone(o, "CreateTensor")
  /\ UNCHANGED <<regVars, operator_def, ctxVars, ws0, calls>>

\* ws->GetTensor(output_str)->SetShapeConfigured(shape_configured) when a
\* shape is configured for the output, and the loop's ++i
InitShapeStep(o) ==
  /\ At(o, "shape")
  /\ ws' = ApplyShape(ops[o].operator_def, ws, pc[o].i)
  /\ Goto(o, "has", pc[o].i + 1)
  /\ StepDone(o, "SetShapeConfigured")
  /\ UNCHANGED <<regVars, operator_def, ctxVars, ops, ws0, fatal, calls>>

(***************************************************************************)
(* SpecInterleave: two Operations run Init on one workspace, their steps   *)
(* in any order.  The two definitions have no output name in common and    *)
(* every input they declare has a tensor at the start.                     *)
(***************************************************************************)
FirstDefs ==
  { OperatorDef("Conv", in, out, otypes, oshapes, <<>>) :
      in \in { <<>>, <<"x1", "y2">> },
      out \in SeqsUpTo({"y1", "x1"}, MaxOutputs),
      otypes \in { <<>>, <<DT_HALF>> },
      oshapes \in { <<>>, <<Shape(4)>> } }

SecondDefs ==
  { OperatorDef("Pool", in, out, otypes, <<>>, <<Arg("T", DT_HALF)>>) :
      in \in { <<"x2">>, <<"y1">> },
      out \in { <<"y2">>, <<"y2", "y3">>, <<"x2", "y3", "y2">> },
      otypes \in { <<>>, <<DT_FLOAT, DT_FLOAT>> } }

\* x1 and x2 are always there; y1 and y2 may be
StartWorkspaces ==
  { [n \in {"x1", "x2"} \cup extra |->
       IF n = "x1" THEN Tensor(1, DT_FLOAT)
       ELSE IF n = "x2" THEN Tensor(2, DT_FLOAT)
       ELSE IF n = "y1" THEN Tensor(3, DT_HALF)
       ELSE Tensor(4, DT_HALF)] : extra \in SUBSET {"y1", "y2"} }

InitInterleave ==
  /\ registry = <<>>
  /\ registered = {}
  /\ placed = [t \in OpTypes |-> NoPlacer]
  /\ operator_def = NoDef
  /\ output_mem_type \in {"CPU_BUFFER"}
  /\ input_mem_types = <<>>
  /\ input_data_types = <<>>
  /\ overridden = {}
  /\ ws \in StartWorkspaces
  /\ ws0 = ws
  /\ \E d1 \in FirstDefs, d2 \in SecondDefs :
       /\ \A k \in 1..Len(d1.input) : d1.input[k] \in DOMAIN ws
       /\ \A k \in 1..Len(d2.input) : d2.input[k] \in DOMAIN ws
       /\ ops = <<[operator_def |-> d1, inputs_ |-> <<>>, outputs_ |-> <<>>],
                  [operator_def |-> d2, inputs_ |-> <<>>, outputs_ |-> <<>>]>>
  /\ pc = [o \in {1, 2} |-> [at |-> "input", i |-> 0, created |-> <<>>]]
  /\ fatal = FALSE
  /\ last = [op |-> "none"]
  /\ calls = [Register |-> 0, Init |-> 0]

NextInterleave ==
  \E o \in DOMAIN ops :
    \/ InitInputStep(o)
    \/ InitHasStep(o)
    \/ InitGetStep(o)
    \/ InitCreateStep(o)
    \/ InitShapeStep(o)

SpecInterleave == InitInterleave /\ [][NextInterleave]_vars

(***************************************************************************)
(* Claims on Operation::Init (SpecInit).                                   *)
(***************************************************************************)
InitCalled == last.op = "Init"

InitDef == ops[last.o].operator_def

\* the tensors that the last Init call appended to outputs_
BoundOutputs ==
  SubSeq(ops[last.o].outputs_, last.n_outputs + 1, Len(ops[last.o].outputs_))

\* how many times CreateTensor was called with the name during the last Init
TimesCreated(name) ==
  Cardinality({k \in 1..Len(last.created) : last.created[k] = name})

InputsPresent ==
  \A k \in 1..Len(InitDef.input) : InitDef.input[k] \in DOMAIN last.ws_before

\* C9: Init creates no tensor for an output name that is in the workspace:
\* the tensor under the name stays the same one and is the one bound; for an
\* output name that is absent, an Init that returns has created exactly one
\* tensor under the name and bound it.  Nothing else enters the workspace.
C9_OutputReuse ==
  InitCalled =>
    LET pre == last.ws_before
        out == InitDef.output
    IN /\ \A name \in DOMAIN pre :
            /\ TimesCreated(name) = 0
            /\ name \in DOMAIN ws
            /\ ws[name].id = pre[name].id
            /\ ws[name].dtype = pre[name].dtype
       /\ \A name \in DOMAIN ws \ DOMAIN pre :
            /\ TimesCreated(name) = 1
            /\ \E i \in 1..Len(out) : out[i] = name
            /\ \A n2 \in DOMAIN pre : ws[n2].id # ws[name].id
       /\ last.outcome = "ok" =>
            /\ Len(BoundOutputs) = Len(out)
            /\ DOMAIN ws = DOMAIN pre \cup {out[i] : i \in 1..Len(out)}
            /\ \A i \in 1..Len(out) :
                 /\ BoundOutputs[i] = ws[out[i]].id
                 /\ out[i] \in DOMAIN pre => BoundOutputs[i] = pre[out[i]].id
                 /\ out[i] \notin DOMAIN pre => TimesCreated(out[i]) = 1

\* one output is found in the workspace and bound, another is created
C9_Witness ==
  /\ InitCalled /\ last.outcome = "ok"
  /\ last.n_outputs = 0
  /\ InitDef.output = <<"x1", "y1">>
  /\ "x1" \in DOMAIN last.ws_before
  /\ "y1" \notin DOMAIN last.ws_before
  /\ last.created = <<"y1">>
  /\ ops[last.o].outputs_ = <<last.ws_before["x1"].id, ws["y1"].id>>

\* the outputs whose name is absent when Init reaches them (from 0)
AbsentOutputs ==
  {i \in 0..(Len(InitDef.output) - 1) :
     /\ InitDef.output[i + 1] \notin DOMAIN last.ws_before
     /\ \A j \in 0..(i - 1) : InitDef.output[j + 1] # InitDef.output[i + 1]}

\* C10 as stated: an absent output i is created with the declared type of
\* output i when one is declared for i; otherwise Init is fatal when the
\* number of declared output types is neither zero nor the number of
\* outputs; otherwise it is created with the operator's "T".
C10_DeclaredTypeFirst ==
  (InitCalled /\ InputsPresent) =>
    LET def == InitDef
        nt  == Len(def.output_type)
    IN /\ \A i \in AbsentOutputs :
            i < nt => /\ def.output[i + 1] \in DOMAIN ws
                      /\ ws[def.output[i + 1]].dtype = def.output_type[i + 1]
       /\ IF \E i \in AbsentOutputs : i >= nt /\ nt # 0 /\ nt # Len(def.output)
            THEN last.outcome = "fatal"
            ELSE /\ last.outcome = "ok"
                 /\ \A i \in AbsentOutputs :
                      i >= nt => ws[def.output[i + 1]].dtype = AttrT(def)

\* C10, amended: when an output name is absent, Init is fatal if the number
\* of declared output types is neither zero nor the number of outputs, and
\* then creates nothing; otherwise each absent output i is created with the
\* declared type of output i when types are declared, and with the
\* operator's "T" (float when absent) when none is.
C10_CountCheckedFirst ==
  (InitCalled /\ InputsPresent) =>
    LET def == InitDef
        nt  == Len(def.output_type)
    IN IF AbsentOutputs = {}
         THEN last.outcome = "ok" /\ last.created = <<>>
         ELSE IF nt # 0 /\ nt # Len(def.output)
           THEN /\ last.outcome = "fatal" /\ fatal
                /\ last.created = <<>>
                /\ DOMAIN ws = DOMAIN last.ws_before
           ELSE /\ last.outcome = "ok"
                /\ \A i \in AbsentOutputs :
                     /\ def.output[i + 1] \in DOMAIN ws
                     /\ ws[def.output[i + 1]].dtype =
                          IF nt # 0 THEN def.output_type[i + 1] ELSE AttrT(def)

\* two outputs are created, each with its declared type, and the second
\* differs from the operator's "T"
C10_Witness ==
  /\ InitCalled /\ InputsPresent /\ last.outcome = "ok"
  /\ InitDef.output = <<"y1", "x1">>
  /\ InitDef.output_type = <<DT_HALF, DT_FLOAT>>
  /\ AttrT(InitDef) = DT_HALF
  /\ last.created = <<"y1", "x1">>
  /\ ws["y1"].dtype = DT_HALF /\ ws["x1"].dtype = DT_FLOAT

\* the first declared input of the last Init that had no tensor (from 1)
FirstMissing ==
  CHOOSE k \in 1..Len(InitDef.input) :
    /\ InitDef.input[k] \notin DOMAIN last.ws_before
    /\ \A j \in 1..(k - 1) : InitDef.input[j] \in DOMAIN last.ws_before

\* C11: an Init on an operator that declares an input name without a tensor
\* in the workspace ends in the fatal state, reports the operator's type and
\* the missing input name, and does not return a success status; an Init
\* whose declared inputs all have tensors never fails the input check.
C11_MissingInputFatal ==
  InitCalled =>
    IF InputsPresent
      THEN last.failed # "input"
      ELSE /\ last.outcome = "fatal" /\ fatal
           /\ last.failed = "input"
           /\ last.message = <<InitDef.type, InitDef.input[FirstMissing]>>

\* the second of two declared inputs is the missing one
C11_Witness ==
  /\ InitCalled /\ fatal
  /\ InitDef.input = <<"x2", "x1">>
  /\ "x1" \notin DOMAIN last.ws_before
  /\ last.message = <<"Pool", "x1">>
  /\ Len(ops[last.o].inputs_) = last.n_inputs + 1

\* C19: an Init that ends in the missing-input fatal state leaves the
\* workspace as it was before the call: no tensor was created, no configured
\* shape was applied and outputs_ was not touched, also when the missing
\* input name is one of the operator's own output names.
C19_InputsBeforeOutputs ==
  (InitCalled /\ ~InputsPresent) =>
    /\ last.failed = "input"
    /\ ws = last.ws_before
    /\ last.created = <<>>
    /\ Len(ops[last.o].outputs_) = last.n_outputs

\* the missing input is also the operator's second output; the first output
\* is absent too and has a configured shape
C19_Witness ==
  /\ InitCalled /\ last.failed = "input"
  /\ InitDef.input = <<"x1">>
  /\ InitDef.output = <<"y1", "x1">>
  /\ Len(InitDef.output_shape) = 1
  /\ DOMAIN last.ws_before = {"x2"}
  /\ ws = last.ws_before

\* C14: after one or more Init calls on an Operation that all returned,
\* inputs_ holds exactly one tensor per declared input, in declaration
\* order, and outputs_ exactly one tensor per declared output, in
\* declaration order.
C14_OneReferencePerName ==
  (InitCalled /\ last.outcome = "ok") =>
    LET def == InitDef
    IN /\ ops[last.o].inputs_ = [k \in 1..Len(def.input) |-> ws[def.input[k]].id]
       /\ ops[last.o].outputs_ = [k \in 1..Len(def.output) |-> ws[def.output[k]].id]

\* the declared output-type count is neither zero nor the output count
TypeCountMismatch(def) ==
  Len(def.output_type) # 0 /\ Len(def.output_type) # Len(def.output)

\* C15 as stated: an Init on a definition whose declared output-type count
\* is neither zero nor its output count ends in the fatal state, whether or
\* not its output names are in the workspace.
C15_MismatchAlwaysFatal ==
  (InitCalled /\ TypeCountMismatch(InitDef)) => (last.outcome = "fatal" /\ fatal)

\* C15, amended: an Init on such a definition whose inputs all have tensors
\* is fatal exactly when one of its output names is absent from the
\* workspace when Init comes to it, and then at the first such output; when
\* every output name is found (or no output is declared) Init returns, binds
\* the tensors found and creates nothing.
C15_MismatchFatalOnCreate ==
  (InitCalled /\ TypeCountMismatch(InitDef) /\ InputsPresent) =>
    IF AbsentOutputs = {}
      THEN /\ last.outcome = "ok" /\ ~fatal
           /\ last.created = <<>>
           /\ Len(BoundOutputs) = Len(InitDef.output)
      ELSE /\ last.outcome = "fatal" /\ fatal
           /\ last.failed = "output_type"
           /\ last.created = <<>>
           /\ \A i \in AbsentOutputs : Len(BoundOutputs) <= i

\* one output and two declared types, the output's name is in the workspace
C15_Witness ==
  /\ InitCalled /\ InputsPresent /\ last.outcome = "ok"
  /\ InitDef.output = <<"x1">>
  /\ Len(InitDef.output_type) = 2
  /\ "x1" \in DOMAIN last.ws_before
  /\ ops[last.o].outputs_ = <<last.ws_before["x1"].id>>

(***************************************************************************)
(* Claims on the construct context (SpecContext).                          *)
(***************************************************************************)
\* C7: while input_mem_types is not materialized GetInputMemType(i) returns
\* output_mem_type, and while input_data_types is not materialized
\* GetInputDataType(i) returns the definition's "T" (float when absent), for
\* every index i, in or out of the operator's inputs, and no check fails.
C7_DefaultsForAnyIndex ==
  /\ (last.op = "GetInputMemType" /\ input_mem_types = <<>>) =>
       /\ last.result = [outcome |-> "ok", value |-> output_mem_type]
       /\ ~fatal
  /\ (last.op = "GetInputDataType" /\ input_data_types = <<>> /\ operator_def # NoDef) =>
       /\ last.result = [outcome |-> "ok", value |-> AttrT(operator_def)]
       /\ ~fatal
  /\ (operator_def # NoDef /\ input_mem_types = <<>> /\ input_data_types = <<>>) =>
       \A i \in Indices :
         /\ GetInputMemTypeResult(i) = [outcome |-> "ok", value |-> output_mem_type]
         /\ GetInputDataTypeResult(i) = [outcome |-> "ok", value |-> AttrT(operator_def)]

\* an index beyond the inputs is asked for after an earlier override was
\* dropped by set_output_mem_type, and the default comes back
C7_Witness ==
  /\ last.op = "GetInputMemType"
  /\ operator_def # NoDef
  /\ input_mem_types = <<>> /\ input_data_types # <<>>
  /\ last.idx > Len(operator_def.input)
  /\ last.result.outcome = "ok"
  /\ last.result.value = output_mem_type

\* C8: from an unmaterialized context for an operator with n inputs,
\* SetInputInfo(k, M2, D2) with k < n makes index k report M2 and D2, leaves
\* every other index below n at output_mem_type and the operator's "T", and
\* makes every index from n on fail the bounds check of both getters;
\* SetInputInfo with k >= n is fatal.
C8_OverrideOneIndex ==
  (last.op = "SetInputInfo" /\ operator_def # NoDef /\ last.fresh) =>
    LET n == Len(operator_def.input)
    IN IF last.idx < n
         THEN /\ last.outcome = "ok" /\ ~fatal
              /\ \A j \in Indices :
                   /\ GetInputMemTypeResult(j) =
                        IF j = last.idx THEN [outcome |-> "ok", value |-> last.mem_type]
                        ELSE IF j < n THEN [outcome |-> "ok", value |-> output_mem_type]
                        ELSE [outcome |-> "fatal"]
                   /\ GetInputDataTypeResult(j) =
                        IF j = last.idx THEN [outcome |-> "ok", value |-> last.dt]
                        ELSE IF j < n THEN [outcome |-> "ok", value |-> AttrT(operator_def)]
                        ELSE [outcome |-> "fatal"]
         ELSE last.outcome = "fatal" /\ fatal

\* an override that differs from both defaults, on the second of two inputs
C8_Witness ==
  /\ last.op = "SetInputInfo" /\ operator_def # NoDef /\ last.fresh
  /\ last.outcome = "ok"
  /\ Len(operator_def.input) = 2 /\ last.idx = 1
  /\ last.mem_type # output_mem_type
  /\ last.dt # AttrT(operator_def)
  /\ input_mem_types = <<output_mem_type, last.mem_type>>

\* C18: for every input index of the current definition that SetInputInfo
\* has not stored an override for, GetInputDataType answers the "T" of the
\* definition the context holds (float when absent), also after a
\* CreateOperation on the context.
C18_DefaultFollowsT ==
  operator_def # NoDef =>
    \A i \in 0..(Len(operator_def.input) - 1) :
      i \notin overridden =>
        /\ GetInputDataTypeResult(i) = [outcome |-> "ok", value |-> AttrT(operator_def)]
        /\ (last.op = "GetInputDataType" /\ last.idx = i) =>
             last.result = [outcome |-> "ok", value |-> AttrT(operator_def)]

\* C13: whenever input_mem_types or input_data_types is materialized, its
\* length is the input count of the definition the context holds.
C13_MaterializedLength ==
  operator_def # NoDef =>
    /\ input_mem_types # <<>> => Len(input_mem_types) = Len(operator_def.input)
    /\ input_data_types # <<>> => Len(input_data_types) = Len(operator_def.input)

(***************************************************************************)
(* Claims on placement (SpecPlacement).                                    *)
(***************************************************************************)
\* AvailableDevices ran on a registered type and a context with a definition
PlacementQueried ==
  /\ last.op = "AvailableDevices"
  /\ last.type \in DOMAIN registry
  /\ last.def # NoDef

DefaultPolicyQueried ==
  PlacementQueried /\ registry[last.type].device_placer = DefaultPlacer

\* C4: under the default policy AvailableDevices returns exactly {CPU} when
\* the type supports CPU, every declared output has a configured shape (as
\* many shapes as outputs) and the first output's configured shape has a
\* rank other than 4; in every other case, for any number of outputs and of
\* shapes, it returns the declared device set.
C4_DefaultPlacementRule ==
  DefaultPolicyQueried =>
    LET devices == registry[last.type].devices
        op      == last.def
        cpuOnly == /\ CPU \in devices
                   /\ Len(op.output_shape) = Len(op.output)
                   /\ Len(op.output) >= 1
                   /\ Len(op.output_shape[1]) # 4
    IN /\ last.outcome = "ok"
       /\ last.devices = IF cpuOnly THEN {CPU} ELSE devices

\* C5: under the default policy, a definition without any configured output
\* shape is placed on the declared device set, whatever its number of
\* declared outputs.
C5_NoShapeNoRestriction ==
  (DefaultPolicyQueried /\ Len(last.def.output_shape) = 0) =>
    /\ last.outcome = "ok"
    /\ last.devices = registry[last.type].devices

\* C6 as stated: once a builder carrying a custom placer was registered for
\* a type, AvailableDevices for the type returns that placer's result, for
\* every definition, after whatever call comes next.
C6_OncePlacedAlwaysPlaced ==
  [][\A t \in OpTypes :
       placed[t] # NoPlacer =>
         \A def \in PlacementDefs :
           PlacerResults(registry'[t], def) = CustomPlacer(placed[t], def)]_vars

\* C6, amended: AvailableDevices for a type returns the result of the placer
\* of the latest placer-carrying builder registered for the type, not the
\* default rule's, wherever the Register calls for creators fall; a builder
\* without a placer leaves the policy as it was.
C6_LatestPlacerDecides ==
  /\ (PlacementQueried /\ placed[last.type] # NoPlacer) =>
       /\ last.outcome = "ok"
       /\ Returns(last.devices) \in CustomPlacer(placed[last.type], last.def)
  /\ (last.op = "RegisterBuilder" /\ last.placer = NoPlacer) =>
       registry[last.type].device_placer = last.before
  /\ \A t \in DOMAIN registry :
       registry[t].device_placer =
         IF placed[t] = NoPlacer THEN DefaultPlacer ELSE placed[t]

\* the placer answers {GPU} where the default rule would answer {CPU}, with
\* creators registered for both devices
C6_Witness ==
  /\ PlacementQueried
  /\ placed[last.type] = "placer_gpu"
  /\ registry[last.type].devices = {CPU, GPU}
  /\ Len(last.def.output) = 1 /\ Len(last.def.output_shape) = 1
  /\ Len(last.def.output_shape[1]) = 3
  /\ last.devices = {GPU}

(***************************************************************************)
(* Claims on registration and dispatch (Spec).                             *)
(***************************************************************************)
\* the effective data type: "T" after the CPU half-precision downgrade
EffectiveType(def, device) ==
  IF device = CPU /\ AttrT(def) = DT_HALF THEN DT_FLOAT ELSE AttrT(def)

RegisteredUnder(t, device, dt) ==
  {r \in registered : r[1] = t /\ r[2] = device /\ r[3] = dt}

CreateOperationCalled == last.op = "CreateOperation" /\ last.def # NoDef

\* C1: CreateOperation(context, device) on a definition of type t with
\* effective data type e invokes exactly the creator that a Register call
\* registered under (t, device, e) and returns its Operation; when nothing
\* was registered under exactly (t, device, e) the call is fatal and no
\* creator is invoked.
C1_DispatchExact ==
  CreateOperationCalled =>
    LET match == RegisteredUnder(last.def.type, last.device,
                                 EffectiveType(last.def, last.device))
    IN IF match = {}
         THEN last.outcome = "fatal" /\ fatal /\ last.invoked = {} /\ last.result = {}
         ELSE /\ last.outcome = "ok" /\ ~fatal
              /\ Cardinality(match) = 1
              /\ last.invoked = {r[4] : r \in match}
              /\ last.result = {[creator |-> r[4], operator_def |-> operator_def] : r \in match}

C1_Witness ==
  /\ CreateOperationCalled
  /\ last.device = CPU /\ AttrT(last.def) = DT_HALF
  /\ last.outcome = "ok" /\ last.invoked # {}
  /\ Cardinality(registered) >= 2

\* C2: CreateOperation rewrites "T" if and only if the device is CPU and the
\* resolved "T" is half-precision; then "T" is single-precision in the
\* shared definition and the single-precision key is the one looked up.  In
\* every other case the definition is left as it was.  Nothing but "T"
\* arguments is ever changed.
C2_DowngradeOnlyCpuHalf ==
  CreateOperationCalled =>
    IF last.device = CPU /\ AttrT(last.def) = DT_HALF
      THEN /\ AttrT(operator_def) = DT_FLOAT
           /\ operator_def # last.def
           /\ last.key = last.def.type \o "0" \o "T_DT_FLOAT"
           /\ Len(operator_def.arg) = Len(last.def.arg)
           /\ \A k \in 1..Len(last.def.arg) :
                /\ operator_def.arg[k].name = last.def.arg[k].name
                /\ last.def.arg[k].name # "T" => operator_def.arg[k] = last.def.arg[k]
           /\ [operator_def EXCEPT !.arg = last.def.arg] = last.def
      ELSE /\ operator_def = last.def
           /\ last.key = last.def.type
                           \o (IF last.device = CPU THEN "0" ELSE "2")
                           \o (IF AttrT(last.def) = DT_HALF THEN "T_DT_HALF" ELSE "T_DT_FLOAT")

C2_Witness ==
  /\ CreateOperationCalled
  /\ last.device = CPU /\ AttrT(last.def) = DT_HALF
  /\ Len(last.def.arg) = 2
  /\ AttrT(operator_def) = DT_FLOAT

\* C3: a second Register of the same (type, device) with another data type
\* returns, and then both creators are stored, each under its own key, and
\* the device is in the device set; a Register of a triple that an earlier
\* Register already stored is fatal and the first creator stays in place.
C3_RegisterTwice ==
  last.op = "Register" =>
    LET earlier == {r \in RegisteredUnder(last.type, last.device, last.dt) :
                      r[4] # last.creator}
        info    == registry[last.type]
        mine    == {r \in registered : r[1] = last.type}
    IN /\ last.device \in info.devices
       /\ info.devices = {r[2] : r \in mine} \cup {last.device}
       /\ Cardinality(DOMAIN info.creators) = Cardinality(mine)
       /\ \A r \in mine :
            /\ Build(r[1], r[2], r[3]) \in DOMAIN info.creators
            /\ info.creators[Build(r[1], r[2], r[3])] = r[4]
       /\ IF earlier = {}
            THEN last.outcome = "ok" /\ ~fatal
                 /\ <<last.type, last.device, last.dt, last.creator>> \in registered
            ELSE last.outcome = "fatal" /\ fatal
                 /\ info.creators[last.key] \in {r[4] : r \in earlier}
                 /\ info.creators[last.key] # last.creator

\* the same (type, device) holds two data types and a third Register
\* repeats one of the triples
C3_Witness ==
  /\ last.op = "Register" /\ last.outcome = "fatal"
  /\ \E r1, r2 \in registered :
       /\ r1[1] = last.type /\ r2[1] = last.type
       /\ r1[2] = last.device /\ r2[2] = last.device
       /\ r1[3] # r2[3]
       /\ Cardinality(DOMAIN registry[last.type].creators) = 2
       /\ registry[last.type].devices = {last.device}

\* C16: in every state of the registry, also after a Register that ended
\* in the duplicate-key fatal, every creator of a type's registration info is
\* stored under the key of a device that is in the info's device set.
C16_CreatorsOnKnownDevices ==
  \A t \in DOMAIN registry :
    \A key \in DOMAIN registry[t].creators :
      /\ \E d \in registry[t].devices, dt \in DataTypes : key = Build(t, d, dt)
      /\ \A d \in DeviceTypes, dt \in DataTypes :
           key = Build(t, d, dt) => d \in registry[t].devices

\* a type with creators on both devices, after a duplicate-key fatal
C16_Witness ==
  /\ last.op = "Register" /\ last.outcome = "fatal" /\ fatal
  /\ registry[last.type].devices = {CPU, GPU}
  /\ Cardinality(DOMAIN registry[last.type].creators) = 2

\* C20: no CreateOperation invokes a creator registered under (type, CPU,
\* half): every invocation for the CPU device looks up a key of another data
\* type than half, and leaves the definition with a "T" that is not half.
C20_CpuHalfNeverInvoked ==
  (CreateOperationCalled /\ last.device = CPU /\ last.invoked # {}) =>
    /\ last.key # Build(last.def.type, CPU, DT_HALF)
    /\ \A r \in RegisteredUnder(last.def.type, CPU, DT_HALF) : r[4] \notin last.invoked
    /\ AttrT(operator_def) # DT_HALF
    /\ \A res \in last.result : AttrT(res.operator_def) # DT_HALF

\* a creator is registered under (type, CPU, half), and CreateOperation for
\* CPU on a half-precision definition of the type invokes another one
C20_Witness ==
  /\ CreateOperationCalled /\ last.device = CPU /\ last.invoked # {}
  /\ AttrT(last.def) = DT_HALF
  /\ RegisteredUnder(last.def.type, CPU, DT_HALF) # {}
  /\ \A r \in RegisteredUnder(last.def.type, CPU, DT_HALF) : r[4] \notin last.invoked

(***************************************************************************)
(* Claims on the key builder (SpecKey).                                    *)
(***************************************************************************)
\* C12: the key is a function of (operator type name, device, data type):
\* two builds from the same triple give the same string, and two builds from
\* triples that differ in a component give different strings.
C12_KeyInjective ==
  last.op = "Build" => ((last.a = last.b) <=> (last.key_a = last.key_b))

\* a name that ends in a device digit, against the name without it
C12_Witness ==
  /\ last.op = "Build"
  /\ last.a = <<"Conv0", CPU, DT_HALF>>
  /\ last.b = <<"Conv", CPU, DT_HALF>>
  /\ last.key_a = "Conv00T_DT_HALF"
  /\ last.key_b = "Conv0T_DT_HALF"

(***************************************************************************)
(* Claims on interleaved Init calls (SpecInterleave).                      *)
(***************************************************************************)
\* what can be seen of a workspace and of bindings into it, tensor
\* addresses aside: per name the data type and the configured shape, and per
\* bound reference the names the referenced tensor is under
Contents(w) ==
  [n \in DOMAIN w |-> [dtype |-> w[n].dtype, shape_configured |-> w[n].shape_configured]]

BoundNames(w, refs) ==
  [k \in 1..Len(refs) |-> {n \in DOMAIN w : w[n].id = refs[k]}]

\* the two Init calls one after the other from the workspace at the start:
\* Operation a first, then Operation b
OneAfterTheOther(a, b) ==
  LET ra == InitResult(ops[a].operator_def, ws0, <<>>, <<>>)
      rb == InitResult(ops[b].operator_def, ra.ws, <<>>, <<>>)
  IN IF ~ra.ok
       THEN [ok |-> FALSE]
       ELSE [ok |-> rb.ok, contents |-> Contents(rb.ws),
             inputs  |-> [o \in {a, b} |->
                            BoundNames(rb.ws, IF o = a THEN ra.inputs ELSE rb.inputs)],
             outputs |-> [o \in {a, b} |->
                            BoundNames(rb.ws, IF o = a THEN ra.outputs ELSE rb.outputs)],
             created |-> ra.created \o rb.created]

BothDone == \A o \in DOMAIN pc : pc[o].at = "done"

TimesCreatedBy(o, name) ==
  Cardinality({k \in 1..Len(pc[o].created) : pc[o].created[k] = name})

\* C17: two Operations without a common output name, every input present
\* at the start, run Init with their workspace steps interleaved.  When both
\* have returned, the workspace holds what it holds after the two Init calls
\* one after the other, in either order, and each Operation is bound to the
\* tensors of the same names; every output name absent at the start was
\* created exactly once and no other name was created.  An interleaving ends
\* in a failed check only if the calls one after the other do, and at no
\* point has a name been created twice or a tensor of the start replaced.
C17_InterleavingSameAsSequence ==
  (DOMAIN pc = {1, 2}) =>
    LET s12 == OneAfterTheOther(1, 2)
        s21 == OneAfterTheOther(2, 1)
    IN /\ \A n \in DOMAIN ws0 : n \in DOMAIN ws /\ ws[n].id = ws0[n].id
                                                  /\ ws[n].dtype = ws0[n].dtype
       /\ \A n \in DOMAIN ws :
            TimesCreatedBy(1, n) + TimesCreatedBy(2, n) =
              IF n \in DOMAIN ws0 THEN 0 ELSE 1
       /\ fatal => (~s12.ok /\ ~s21.ok)
       /\ BothDone =>
            /\ s12.ok /\ s21.ok
            /\ Contents(ws) = s12.contents /\ Contents(ws) = s21.contents
            /\ \A o \in {1, 2} :
                 /\ BoundNames(ws, ops[o].inputs_) = s12.inputs[o]
                 /\ BoundNames(ws, ops[o].outputs_) = s12.outputs[o]
                 /\ BoundNames(ws, ops[o].inputs_) = s21.inputs[o]
                 /\ BoundNames(ws, ops[o].outputs_) = s21.outputs[o]
            /\ DOMAIN ws \ DOMAIN ws0 =
                 {s12.created[k] : k \in 1..Len(s12.created)}

\* both have returned; the first Operation created its output between the
\* two creations of the second, and each found one of its outputs in the
\* workspace
C17_Witness ==
  /\ DOMAIN pc = {1, 2} /\ BothDone
  /\ DOMAIN ws0 = {"x1", "x2"}
  /\ ops[1].operator_def.output = <<"x1", "y1">>
  /\ ops[2].operator_def.output = <<"x2", "y3", "y2">>
  /\ pc[1].created = <<"y1">>
  /\ pc[2].created = <<"y3", "y2">>
  /\ ws["y3"].id < ws["y1"].id /\ ws["y1"].id < ws["y2"].id

====
